---- MODULE Spec2Model ----
(***************************************************************************)
(* A model of private_isu/webapp/python/app.py: the users / posts /       *)
(* comments store, the Flask session, the credential hasher (digest,      *)
(* calculate_salt, calculate_passhash, try_login, validate_user), the     *)
(* feed assembler make_posts and the request handlers that call them.     *)
(*                                                                         *)
(* Strings that the code inspects character by character (account names,  *)
(* passwords, the post_id form field) are sequences of one-character      *)
(* strings.  A hex digest is <<"sha512", src>>; the empty string is <<>>.  *)
(***************************************************************************)
EXTENDS Integers, Sequences, FiniteSets, TLC

VARIABLES
    users,      \* table `users`   : sequence of rows, row i has id i
    posts,      \* table `posts`   : sequence of rows, row i has id i
    comments,   \* table `comments`: sequence of rows, row i has id i
    session,    \* flask.session["user"]["id"] of each client, 0 when absent
    now,        \* the created_at of the latest insert, in seconds
    opensslOk,  \* whether the openssl stage of digest's pipeline works
    reg,        \* position of each client's in-flight post_register request
    view        \* the response to the latest request

vars == <<users, posts, comments, session, now, opensslOk, reg, view>>

-----------------------------------------------------------------------------
(* Program constants *)

POSTS_PER_PAGE == 20
PrefetchFactor == 2
CommentsPerPost == 3
MinNameLen == 3
MinPasswordLen == 6
UPLOAD_LIMIT == 10 * 1024 * 1024

(* Bounds of the model *)

NSeedPosts == 22       \* posts in the store at start; post 1 is an orphan
MaxUsers == 4          \* rows the users table may grow to
MaxWrites == 1         \* posts and comments inserted after start
NSeedComments == 4     \* comments on the newest seed post at start

-----------------------------------------------------------------------------
(* Characters and the strings the requests carry *)

Digits == {"0", "1", "2", "3", "4", "5", "6", "7", "8", "9"}
Lower == {"a", "b", "c", "d", "e", "f", "g", "h", "i", "j", "k", "l", "m",
          "n", "o", "p", "q", "r", "s", "t", "u", "v", "w", "x", "y", "z"}
Upper == {"A", "B", "C", "D", "E", "F", "G", "H", "I", "J", "K", "L", "M",
          "N", "O", "P", "Q", "R", "S", "T", "U", "V", "W", "X", "Y", "Z"}
NameChars == Digits \cup Lower \cup Upper
PasswordChars == NameChars \cup {"_"}

EmptyStr == <<>>

NameAdm == <<"a", "d", "m">>
NameBob == <<"b", "o", "b">>
NameEve == <<"e", "v", "e">>
NameShort == <<"e", "v">>
NameTail == <<"e", "v", "e", "!">>
NameHead == <<"!", "e", "v", "e">>

PwAdm == <<"a", "d", "m", "i", "n", "_", "1">>
PwBob == <<"b", "o", "b", "b", "o", "b">>
PwOne == <<"s", "e", "c", "r", "e", "t", "1">>
PwTwo == <<"s", "e", "c", "r", "e", "t", "2">>
PwShort == <<"s", "e", "c", "r", "1">>
PwTail == <<"s", "e", "c", "r", "e", "t", "!">>
PwHead == <<"!", "s", "e", "c", "r", "e", "t">>

Clients == {"c1", "c2"}
Browser == {"c1"}
TieBreaks == {"idAsc", "idDesc"}
Mimes == {"image/jpeg", "image/png", "image/gif"}

Min(a, b) == IF a < b THEN a ELSE b

-----------------------------------------------------------------------------
(* validate_user: re.match anchors the pattern at the start of the string  *)
(* only, so it succeeds as soon as the first n characters are in the class *)

re_match(class, n, s) ==
    /\ Len(s) >= n
    /\ \A i \in 1..n : s[i] \in class

validate_user(account_name, password) ==
    IF ~re_match(NameChars, MinNameLen, account_name) THEN FALSE
    ELSE IF ~re_match(PasswordChars, MinPasswordLen, password) THEN FALSE
    ELSE TRUE

-----------------------------------------------------------------------------
(* digest: `printf | openssl dgst -sha512 | sed` run through the shell.    *)
(* check_output raises only on the exit status of the pipeline, which is   *)
(* sed's; when the openssl stage fails sed reads nothing, exits 0, and     *)
(* digest returns "".strip() = "".                                         *)

Sha512(src) == <<"sha512", src>>

digest(src) == IF opensslOk THEN Sha512(src) ELSE EmptyStr

calculate_salt(account_name) == digest(account_name)

\* "%s:%s" % (password, salt)
FormatPasswordSalt(password, salt) == <<password, ":", salt>>

calculate_passhash(account_name, password) ==
    digest(FormatPasswordSalt(password, calculate_salt(account_name)))

-----------------------------------------------------------------------------
(* Rows *)

NoUser == [id |-> 0, account_name |-> EmptyStr, passhash |-> EmptyStr,
           authority |-> 0, del_flg |-> 0]

UserRow(id, account_name, passhash, authority) ==
    [id |-> id, account_name |-> account_name, passhash |-> passhash,
     authority |-> authority, del_flg |-> 0]

\* SELECT * FROM users WHERE id = %s ; fetchone()
UserById(id) == IF id \in 1..Len(users) THEN users[id] ELSE NoUser

get_session_user(c) ==
    IF session[c] # 0 THEN UserById(session[c]) ELSE NoUser

-----------------------------------------------------------------------------
(* The order the store returns rows in.  The queries say ORDER BY          *)
(* `created_at` DESC and nothing else, so rows with equal created_at come  *)
(* back in an order the engine picks: tb is that pick.                     *)

TieBefore(i, j, tb) == IF tb = "idAsc" THEN i < j ELSE i > j

\* ORDER BY `created_at` DESC
PostBefore(a, b, tb) ==
    \/ a.created_at > b.created_at
    \/ a.created_at = b.created_at /\ TieBefore(a.id, b.id, tb)

OrderPosts(rows, tb) == SortSeq(rows, LAMBDA a, b : PostBefore(a, b, tb))

\* LIMIT %s
Limit(rows, n) == SubSeq(rows, 1, Min(Len(rows), n))

\* ORDER BY `post_id`, `created_at` DESC
CommentBefore(a, b, tb) ==
    \/ a.post_id < b.post_id
    \/ a.post_id = b.post_id /\ a.created_at > b.created_at
    \/ a.post_id = b.post_id /\ a.created_at = b.created_at
                             /\ TieBefore(a.id, b.id, tb)

\* ROW_NUMBER() OVER (PARTITION BY `post_id` ORDER BY `created_at` DESC)
RowNumber(c, tb) ==
    1 + Cardinality({j \in 1..Len(comments) :
                        /\ comments[j].post_id = c.post_id
                        /\ comments[j].id # c.id
                        /\ CommentBefore(comments[j], c, tb)})

\* the comments query of make_posts, in either mode
FetchComments(post_ids, all_comments, tb) ==
    LET inPosts == SelectSeq(comments, LAMBDA c : c.post_id \in post_ids)
        kept == IF all_comments
                THEN inPosts
                ELSE SelectSeq(inPosts,
                               LAMBDA c : RowNumber(c, tb) <= CommentsPerPost)
    IN  SortSeq(kept, LAMBDA a, b : CommentBefore(a, b, tb))

\* SELECT `post_id`, COUNT(*) ... GROUP BY `post_id` ; comment_counts.get(post_id, 0)
CommentCount(post_id) ==
    Cardinality({j \in 1..Len(comments) : comments[j].post_id = post_id})

-----------------------------------------------------------------------------
(* make_posts *)

NoReverse(s) == s

\* comments.reverse()
Reverse(s) == [i \in 1..Len(s) |-> s[Len(s) + 1 - i]]

DropsOnlyMissing(user) == user.id # 0

\* the negation of `not post["user"] or post["user"]["del_flg"]`
KeepAuthor(user) == ~(user.id = 0 \/ user.del_flg # 0)

PageFullOffByOne(out) == Len(out) > POSTS_PER_PAGE

PageNeverFull(out) == FALSE

\* len(posts) >= POSTS_PER_PAGE
PageFull(out) == Len(out) >= POSTS_PER_PAGE

\* comment["user"] = comment_users_dict.get(comment["user_id"])
WithUser(c) ==
    [id |-> c.id, post_id |-> c.post_id, user_id |-> c.user_id,
     created_at |-> c.created_at, user |-> UserById(c.user_id)]

\* the body of the assembly loop for a post that is kept
Hydrate(post, user, fetched) ==
    LET group == SelectSeq(fetched, LAMBDA c : c.post_id = post.id)
        withUsers == [i \in 1..Len(group) |-> WithUser(group[i])]
    IN  [id |-> post.id, user_id |-> post.user_id, mime |-> post.mime,
         created_at |-> post.created_at, user |-> user,
         comment_count |-> CommentCount(post.id),
         comments |-> Reverse(withUsers)]

RECURSIVE Assemble(_, _, _, _)
\* for post in results: ... continue / append / break
Assemble(results, i, out, fetched) ==
    IF i > Len(results) THEN out
    ELSE LET post == results[i]
             user == UserById(post.user_id)
         IN  IF ~KeepAuthor(user)
             THEN Assemble(results, i + 1, out, fetched)
             ELSE LET out2 == Append(out, Hydrate(post, user, fetched))
                  IN  IF PageFull(out2) THEN out2
                      ELSE Assemble(results, i + 1, out2, fetched)

QueryPerComment(results, fetched) ==
    IF results = <<>> THEN 0 ELSE 3 + Len(fetched)

\* the cursor.execute calls of one make_posts call
QueryCount(results, fetched) ==
    IF results = <<>> THEN 0
    ELSE 3 + (IF fetched # <<>> THEN 1 ELSE 0)

make_posts(results, all_comments, tb) ==
    IF results = <<>> THEN [posts |-> <<>>, nq |-> 0]
    ELSE LET post_ids == {results[i].id : i \in 1..Len(results)}
             fetched == FetchComments(post_ids, all_comments, tb)
         IN  [posts |-> Assemble(results, 1, <<>>, fetched),
              nq |-> QueryCount(results, fetched)]

-----------------------------------------------------------------------------
(* The store at start: an administrator and an ordinary user, NSeedPosts   *)
(* posts (the first by an account that no longer exists, the rest by the   *)
(* ordinary user, the last two created in the same second) and             *)
(* NSeedComments comments on the newest post.                              *)

\* the passhash a working digest gives
SeedPasshash(account_name, password) ==
    Sha512(FormatPasswordSalt(password, Sha512(account_name)))

OrphanUid == MaxUsers + 1
HotPost == NSeedPosts
StartClock == NSeedPosts - 1 + (NSeedComments \div 2)

SeedUsers ==
    << UserRow(1, NameAdm, SeedPasshash(NameAdm, PwAdm), 1),
       UserRow(2, NameBob, SeedPasshash(NameBob, PwBob), 0) >>

SeedPosts ==
    [i \in 1..NSeedPosts |->
        [id |-> i,
         user_id |-> IF i = 1 THEN OrphanUid ELSE 2,
         mime |-> "image/jpeg",
         created_at |-> IF i = NSeedPosts THEN i - 1 ELSE i]]

SeedComments ==
    [k \in 1..NSeedComments |->
        [id |-> k, post_id |-> HotPost, user_id |-> 1 + (k % 2),
         created_at |-> NSeedPosts - 1 + (k \div 2)]]

Writes == (Len(posts) - NSeedPosts) + (Len(comments) - NSeedComments)

\* CURRENT_TIMESTAMP when a row is inserted: the second of the latest insert,
\* or the one after it
Clock == {now, now + 1}

\* the response to a request; the fields a handler does not use stay empty
Resp(kind, status, sql) ==
    [kind |-> kind, status |-> status, sql |-> sql, nq |-> 0,
     input |-> <<>>, out |-> <<>>, name |-> EmptyStr, pw |-> EmptyStr, id |-> 0]

Rendered(kind, status, sql, results, mp, id) ==
    [kind |-> kind, status |-> status, sql |-> sql, nq |-> mp.nq,
     input |-> results, out |-> mp.posts, name |-> EmptyStr, pw |-> EmptyStr,
     id |-> id]

Auth(kind, status, sql, account_name, password) ==
    [kind |-> kind, status |-> status, sql |-> sql, nq |-> 0,
     input |-> <<>>, out |-> <<>>, name |-> account_name, pw |-> password,
     id |-> 0]

Idle == [pc |-> "idle", name |-> EmptyStr, pw |-> EmptyStr]

Init ==
    /\ users = SeedUsers
    /\ posts = SeedPosts
    /\ comments = SeedComments
    /\ session = [c \in Clients |-> 0]
    /\ now = StartClock
    /\ opensslOk = TRUE
    /\ reg = [c \in Clients |-> Idle]
    /\ view = Resp("start", "ok", 0)

\* get_session_user runs its SELECT only when the session holds a user
SessionQueries(c) == IF session[c] # 0 THEN 1 ELSE 0

\* cursor.fetchone(): one of the rows the query matched, or None
FetchOne(rows) == IF rows = {} THEN {NoUser} ELSE rows

-----------------------------------------------------------------------------
(* Login, registration, logout *)

LoginRowsIgnoringDelFlg(account_name) ==
    {users[i] : i \in {j \in 1..Len(users) :
                          users[j].account_name = account_name}}

\* SELECT * FROM users WHERE account_name = %s AND del_flg = 0
LoginRows(account_name) ==
    {users[i] : i \in {j \in 1..Len(users) :
                          /\ users[j].account_name = account_name
                          /\ users[j].del_flg = 0}}

\* user and calculate_passhash(user["account_name"], password) == user["passhash"]
try_login(user, password) ==
    /\ user.id # 0
    /\ calculate_passhash(user.account_name, password) = user.passhash

post_login(c, account_name, password) ==
    /\ IF get_session_user(c).id # 0
       THEN /\ view' = Auth("login", "redirect", 1, account_name, password)
            /\ UNCHANGED session
       ELSE \E user \in FetchOne(LoginRows(account_name)) :
               IF try_login(user, password)
               THEN /\ session' = [session EXCEPT ![c] = user.id]
                    /\ view' = Auth("login", "ok", SessionQueries(c) + 1,
                                    account_name, password)
               ELSE /\ view' = Auth("login", "fail", SessionQueries(c) + 1,
                                    account_name, password)
                    /\ UNCHANGED session
    /\ UNCHANGED <<users, posts, comments, now, opensslOk, reg>>

\* SELECT 1 FROM users WHERE `account_name` = %s
NameTaken(account_name) ==
    \E i \in 1..Len(users) : users[i].account_name = account_name

\* INSERT INTO `users` (`account_name`, `passhash`) VALUES (%s, %s)
InsertUser(account_name, password) ==
    Append(users, UserRow(Len(users) + 1, account_name,
                          calculate_passhash(account_name, password), 0))

post_register(c, account_name, password) ==
    /\ IF get_session_user(c).id # 0
       THEN /\ view' = Auth("register", "redirect", 1, account_name, password)
            /\ UNCHANGED <<users, session>>
       ELSE IF ~validate_user(account_name, password)
       THEN /\ view' = Auth("register", "invalid", SessionQueries(c),
                            account_name, password)
            /\ UNCHANGED <<users, session>>
       ELSE IF NameTaken(account_name)
       THEN /\ view' = Auth("register", "taken", SessionQueries(c) + 1,
                            account_name, password)
            /\ UNCHANGED <<users, session>>
       ELSE /\ Len(users) < MaxUsers
            /\ users' = InsertUser(account_name, password)
            /\ session' = [session EXCEPT ![c] = Len(users) + 1]
            /\ view' = Auth("register", "ok", SessionQueries(c) + 2,
                            account_name, password)
    /\ UNCHANGED <<posts, comments, now, opensslOk, reg>>

get_logout(c) ==
    /\ session' = [session EXCEPT ![c] = 0]
    /\ view' = Resp("logout", "redirect", 0)
    /\ UNCHANGED <<users, posts, comments, now, opensslOk, reg>>

(* post_register as the two store statements it is made of, for requests   *)
(* that run at the same time: the existence SELECT, then the INSERT.       *)

InFlight == {d \in Clients : reg[d].pc = "insert"}

RegSelect(c, account_name, password) ==
    /\ reg[c].pc = "idle"
    /\ IF get_session_user(c).id # 0
       THEN /\ view' = Auth("register", "redirect", 1, account_name, password)
            /\ UNCHANGED reg
       ELSE IF ~validate_user(account_name, password)
       THEN /\ view' = Auth("register", "invalid", SessionQueries(c),
                            account_name, password)
            /\ UNCHANGED reg
       ELSE IF NameTaken(account_name)
       THEN /\ view' = Auth("register", "taken", SessionQueries(c) + 1,
                            account_name, password)
            /\ UNCHANGED reg
       ELSE /\ Len(users) + Cardinality(InFlight) < MaxUsers
            /\ reg' = [reg EXCEPT ![c] = [pc |-> "insert",
                                          name |-> account_name,
                                          pw |-> password]]
            /\ view' = Auth("register", "selected", SessionQueries(c) + 1,
                            account_name, password)
    /\ UNCHANGED <<users, posts, comments, session, now, opensslOk>>

RegInsert(c) ==
    /\ reg[c].pc = "insert"
    /\ users' = InsertUser(reg[c].name, reg[c].pw)
    /\ session' = [session EXCEPT ![c] = Len(users) + 1]
    /\ reg' = [reg EXCEPT ![c] = Idle]
    /\ view' = Auth("register", "ok", SessionQueries(c) + 2,
                    reg[c].name, reg[c].pw)
    /\ UNCHANGED <<posts, comments, now, opensslOk>>

-----------------------------------------------------------------------------
(* Posting, commenting, banning *)

DigitSeq == <<"0", "1", "2", "3", "4", "5", "6", "7", "8", "9">>

DigitVal(ch) == (CHOOSE i \in 1..Len(DigitSeq) : DigitSeq[i] = ch) - 1

\* int(post_id) succeeds on a string of digits and raises ValueError otherwise
IsInt(s) == s # <<>> /\ \A i \in 1..Len(s) : s[i] \in Digits

RECURSIVE ParseInt(_)
ParseInt(s) ==
    IF s = <<>> THEN 0
    ELSE 10 * ParseInt(SubSeq(s, 1, Len(s) - 1)) + DigitVal(s[Len(s)])

RECURSIVE Str(_)
\* the decimal form of a post id, as the comment form sends it
Str(n) ==
    IF n < 10 THEN <<DigitSeq[n + 1]>>
    ELSE Str(n \div 10) \o <<DigitSeq[(n % 10) + 1]>>

NoFile == [present |-> FALSE, mime |-> "", size |-> 0]
FileOf(mime, size) == [present |-> TRUE, mime |-> mime, size |-> size]

post_index(c, csrf_ok, file, at) ==
    LET me == get_session_user(c) IN
    /\ IF me.id = 0
       THEN /\ view' = Resp("post", "redirect_login", SessionQueries(c))
            /\ UNCHANGED posts
       ELSE IF ~csrf_ok
       THEN /\ view' = Resp("post", "422", 1)
            /\ UNCHANGED posts
       ELSE IF ~file.present
       THEN /\ view' = Resp("post", "no_file", 1)
            /\ UNCHANGED posts
       ELSE IF file.mime \notin Mimes
       THEN /\ view' = Resp("post", "bad_mime", 1)
            /\ UNCHANGED posts
       ELSE IF file.size > UPLOAD_LIMIT
       THEN /\ view' = Resp("post", "too_large", 1)
            /\ UNCHANGED posts
       ELSE /\ Writes < MaxWrites
            /\ posts' = Append(posts, [id |-> Len(posts) + 1, user_id |-> me.id,
                                       mime |-> file.mime, created_at |-> at])
            /\ view' = [Resp("post", "redirect_post", 2)
                           EXCEPT !.id = Len(posts) + 1]
    /\ now' = (IF posts' # posts THEN at ELSE now)
    /\ UNCHANGED <<users, comments, session, opensslOk, reg>>

post_comment(c, csrf_ok, post_id, at) ==
    LET me == get_session_user(c) IN
    /\ IF me.id = 0
       THEN /\ view' = Resp("comment", "redirect_login", SessionQueries(c))
            /\ UNCHANGED comments
       ELSE IF ~csrf_ok
       THEN /\ view' = Resp("comment", "422", 1)
            /\ UNCHANGED comments
       ELSE IF ~re_match(Digits, 1, post_id)
       THEN /\ view' = Resp("comment", "not_integer", 1)
            /\ UNCHANGED comments
       ELSE IF ~IsInt(post_id)
       THEN /\ view' = Resp("comment", "500", 1)
            /\ UNCHANGED comments
       ELSE /\ Writes < MaxWrites
            /\ comments' = Append(comments,
                                  [id |-> Len(comments) + 1,
                                   post_id |-> ParseInt(post_id),
                                   user_id |-> me.id, created_at |-> at])
            /\ view' = [Resp("comment", "redirect_post", 2)
                           EXCEPT !.id = ParseInt(post_id)]
    /\ now' = (IF comments' # comments THEN at ELSE now)
    /\ UNCHANGED <<users, posts, session, opensslOk, reg>>

\* UPDATE `users` SET `del_flg` = 1 WHERE `id` = %s, for each uid of the form
Ban(uids) ==
    [i \in 1..Len(users) |->
        IF i \in uids THEN [users[i] EXCEPT !.del_flg = 1] ELSE users[i]]

post_banned(c, csrf_ok, uids) ==
    LET me == get_session_user(c) IN
    /\ IF me.id = 0
       THEN /\ view' = Resp("banned", "redirect_login", SessionQueries(c))
            /\ UNCHANGED users
       ELSE IF me.authority = 0
       THEN /\ view' = Resp("banned", "403", 1)
            /\ UNCHANGED users
       ELSE IF ~csrf_ok
       THEN /\ view' = Resp("banned", "422", 1)
            /\ UNCHANGED users
       ELSE /\ users' = Ban(uids)
            /\ view' = Resp("banned", "redirect", 1 + Cardinality(uids))
    /\ UNCHANGED <<posts, comments, session, now, opensslOk, reg>>

\* the openssl stage of digest's pipeline starts failing, or works again
OpensslChanges ==
    /\ opensslOk' = ~opensslOk
    /\ UNCHANGED <<users, posts, comments, session, now, reg, view>>

-----------------------------------------------------------------------------
(* The views that call make_posts.  tb is the order the store gives rows   *)
(* of equal created_at in the queries of this request.                     *)

get_index(c, tb) ==
    LET results == Limit(OrderPosts(posts, tb), POSTS_PER_PAGE * PrefetchFactor)
        mp == make_posts(results, FALSE, tb)
    IN  /\ view' = Rendered("index", "200", SessionQueries(c) + 1, results, mp, 0)
        /\ UNCHANGED <<users, posts, comments, session, now, opensslOk, reg>>

\* SELECT * FROM `users` WHERE `account_name` = %s AND `del_flg` = 0
ListedRows(account_name) ==
    {users[i] : i \in {j \in 1..Len(users) :
                          /\ users[j].account_name = account_name
                          /\ users[j].del_flg = 0}}

get_user_list(c, account_name, tb) ==
    /\ \E user \in FetchOne(ListedRows(account_name)) :
          IF user.id = 0
          THEN view' = [Resp("user", "404", 1) EXCEPT !.name = account_name]
          ELSE LET results == OrderPosts(
                                  SelectSeq(posts, LAMBDA p : p.user_id = user.id),
                                  tb)
                   mp == make_posts(results, FALSE, tb)
               IN  view' = [Rendered("user", "200", SessionQueries(c) + 3,
                                     results, mp, user.id)
                               EXCEPT !.name = account_name]
    /\ UNCHANGED <<users, posts, comments, session, now, opensslOk, reg>>

\* the max_created_at argument: absent, not an ISO 8601 time, or a time
NoCursor == [given |-> FALSE, valid |-> FALSE, t |-> 0]
BadCursor == [given |-> TRUE, valid |-> FALSE, t |-> 0]
CursorAt(t) == [given |-> TRUE, valid |-> TRUE, t |-> t]

get_posts(c, cursor, tb) ==
    /\ IF cursor.given /\ ~cursor.valid
       THEN view' = Resp("posts", "500", 0)
       ELSE LET selected == IF cursor.given
                            THEN SelectSeq(posts,
                                           LAMBDA p : p.created_at <= cursor.t)
                            ELSE posts
                results == OrderPosts(selected, tb)
                mp == make_posts(results, FALSE, tb)
            IN  view' = Rendered("posts", "200", 1, results, mp, 0)
    /\ UNCHANGED <<users, posts, comments, session, now, opensslOk, reg>>

get_posts_id(c, id, tb) ==
    LET results == SelectSeq(posts, LAMBDA p : p.id = id)
        mp == make_posts(results, TRUE, tb)
    IN  /\ IF mp.posts = <<>>
           THEN view' = Rendered("post", "404", 1, results, mp, id)
           ELSE view' = Rendered("post", "200", SessionQueries(c) + 1,
                                 results, mp, id)
        /\ UNCHANGED <<users, posts, comments, session, now, opensslOk, reg>>

-----------------------------------------------------------------------------
(* Specifications *)

FeedAccounts == {<<NameAdm, PwAdm>>, <<NameEve, PwOne>>}
FeedFiles == {NoFile, FileOf("image/jpeg", 1), FileOf("text/plain", 1),
              FileOf("image/jpeg", UPLOAD_LIMIT + 1)}
PostIdInputs == {Str(HotPost), Str(HotPost) \o <<"x">>, <<"x">>}
BanInputs == SUBSET (3..MaxUsers)
NameInputs == {NameBob, NameEve}
CursorInputs == {NoCursor, BadCursor, CursorAt(StartClock - 1)}
IdInputs == {1, HotPost, NSeedPosts + 1}

\* one browser, requests handled one at a time
Next ==
    \/ \E c \in Browser, a \in FeedAccounts : post_login(c, a[1], a[2])
    \/ \E c \in Browser : post_register(c, NameEve, PwOne)
    \/ \E c \in Browser : get_logout(c)
    \/ \E c \in Browser, csrf_ok \in BOOLEAN, file \in FeedFiles, at \in Clock :
          post_index(c, csrf_ok, file, at)
    \/ \E c \in Browser, csrf_ok \in BOOLEAN, post_id \in PostIdInputs,
          at \in Clock :
          post_comment(c, csrf_ok, post_id, at)
    \/ \E c \in Browser, csrf_ok \in BOOLEAN, uids \in BanInputs :
          post_banned(c, csrf_ok, uids)
    \/ \E c \in Browser, tb \in TieBreaks : get_index(c, tb)
    \/ \E c \in Browser, n \in NameInputs, tb \in TieBreaks :
          get_user_list(c, n, tb)
    \/ \E c \in Browser, cur \in CursorInputs, tb \in TieBreaks :
          get_posts(c, cur, tb)
    \/ \E c \in Browser, id \in IdInputs, tb \in TieBreaks :
          get_posts_id(c, id, tb)

Spec == Init /\ [][Next]_vars

\* registration, login and banning, with well-formed and malformed input
AuthNames == {NameBob, NameEve, NameShort, NameTail, NameHead}
AuthPasswords == {PwOne, PwShort, PwTail, PwHead}
AuthLogins == {<<NameAdm, PwAdm>>}
                 \cup ({NameBob, NameEve, NameTail} \X {PwBob, PwOne, PwTwo, PwTail})

NextAuth ==
    \/ \E c \in Browser, n \in AuthNames, p \in AuthPasswords :
          post_register(c, n, p)
    \/ \E c \in Browser, a \in AuthLogins : post_login(c, a[1], a[2])
    \/ \E c \in Browser : get_logout(c)
    \/ \E c \in Browser, csrf_ok \in BOOLEAN, uids \in SUBSET (2..MaxUsers) :
          post_banned(c, csrf_ok, uids)

SpecAuth == Init /\ [][NextAuth]_vars

\* two clients whose post_register requests interleave statement by statement
RaceNames == {NameBob, NameEve, NameTail}
RacePasswords == {PwOne, PwTwo}

NextRace ==
    \/ \E c \in Clients, n \in RaceNames, p \in RacePasswords : RegSelect(c, n, p)
    \/ \E c \in Clients : RegInsert(c)
    \/ \E c \in Clients : get_logout(c)

SpecRace == Init /\ [][NextRace]_vars

\* registration and login while the digest command may fail
DigestNames == {NameBob, NameEve}
DigestPasswords == {PwBob, PwOne, PwTwo}

NextDigest ==
    \/ \E c \in Browser, n \in DigestNames, p \in DigestPasswords :
          post_register(c, n, p)
    \/ \E c \in Browser, n \in DigestNames, p \in DigestPasswords :
          post_login(c, n, p)
    \/ \E c \in Browser : get_logout(c)
    \/ OpensslChanges

SpecDigest == Init /\ [][NextDigest]_vars

-----------------------------------------------------------------------------
(* Properties.  Every request replaces view, so while view holds a render  *)
(* the store is the one that render read.                                  *)

RenderKinds == {"index", "user", "posts", "post"}

IsRender == view.kind \in RenderKinds /\ view.status \in {"200", "404"}

\* the author of a post row exists and is not soft-deleted, in the store as it is
LiveAuthor(p) ==
    /\ p.user_id \in 1..Len(users)
    /\ users[p.user_id].del_flg = 0

Ids(rows) == [i \in 1..Len(rows) |-> rows[i].id]

LiveRows(rows) == SelectSeq(rows, LAMBDA p : LiveAuthor(p))

FirstPage(rows) == SubSeq(rows, 1, Min(POSTS_PER_PAGE, Len(rows)))

\* C1: no list make_posts returns holds a post whose author is missing or
\* has del_flg set, and the detail view of an existing post with such an
\* author is the 404 outcome.
C1_NoDeletedAuthor ==
    IsRender =>
        /\ \A i \in 1..Len(view.out) : LiveAuthor(view.out[i])
        /\ \A i \in 1..Len(view.out) : view.out[i].user.del_flg = 0
        /\ (view.kind = "post" /\ view.id \in 1..Len(posts)
               /\ ~LiveAuthor(posts[view.id]))
              => view.status = "404"

\* the detail view of an existing post by a banned author answered 404
C1_Witness ==
    /\ view.kind = "post"
    /\ view.status = "404"
    /\ view.id \in 1..Len(posts)
    /\ posts[view.id].user_id \in 1..Len(users)
    /\ users[posts[view.id].user_id].del_flg = 1

\* C3: the feed is exactly the first POSTS_PER_PAGE input rows with a live
\* author, in input order; a dropped row takes none of the POSTS_PER_PAGE
\* places.
C3_FeedIsFirstPageOfLiveRows ==
    view.kind = "index" =>
        /\ Ids(view.out) = Ids(FirstPage(LiveRows(view.input)))
        /\ Len(view.out) = Min(POSTS_PER_PAGE, Len(LiveRows(view.input)))
        /\ Len(view.out) <= POSTS_PER_PAGE

\* a full feed page in which a row past the first POSTS_PER_PAGE input rows
\* stands in for a dropped one
C3_Witness ==
    /\ view.kind = "index"
    /\ Len(view.out) = POSTS_PER_PAGE
    /\ Len(view.input) > POSTS_PER_PAGE
    /\ \E i \in 1..POSTS_PER_PAGE : ~LiveAuthor(view.input[i])
    /\ view.out[POSTS_PER_PAGE].id = view.input[POSTS_PER_PAGE + 1].id

CommentsOf(post_id) ==
    {comments[j] : j \in {k \in 1..Len(comments) : comments[k].post_id = post_id}}

AttachedIds(p) == {p.comments[i].id : i \in 1..Len(p.comments)}

\* C4: a kept post carries, in the list views, min(CommentsPerPost, total)
\* of its comments, none older than one left out, and in the detail view
\* all of them; either way oldest first.
C4_CommentSelection ==
    IsRender =>
        \A n \in 1..Len(view.out) :
            LET p == view.out[n]
                all == CommentsOf(p.id)
                left == {c \in all : c.id \notin AttachedIds(p)}
            IN  /\ AttachedIds(p) \subseteq {c.id : c \in all}
                /\ Cardinality(AttachedIds(p)) = Len(p.comments)
                /\ \A i \in 1..Len(p.comments) :
                      \E c \in all : /\ c.id = p.comments[i].id
                                     /\ c.created_at = p.comments[i].created_at
                /\ IF view.kind = "post"
                   THEN left = {}
                   ELSE /\ Len(p.comments) = Min(CommentsPerPost, Cardinality(all))
                        /\ \A i \in 1..Len(p.comments) : \A c \in left :
                              p.comments[i].created_at >= c.created_at
                /\ \A i \in 1..Len(p.comments) : \A j \in 1..Len(p.comments) :
                      i < j => p.comments[i].created_at <= p.comments[j].created_at

\* a list view that cut a post's comments down to CommentsPerPost, of
\* different ages
C4_Witness ==
    /\ view.kind = "index"
    /\ \E n \in 1..Len(view.out) :
          /\ Cardinality(CommentsOf(view.out[n].id)) > CommentsPerPost
          /\ Len(view.out[n].comments) = CommentsPerPost
          /\ view.out[n].comments[1].created_at
                < view.out[n].comments[CommentsPerPost].created_at

\* C6: make_posts runs no query on empty input and otherwise 3, plus 1 when
\* a comment was fetched; never more than 4.
C6_QueryCount ==
    IsRender =>
        /\ view.input = <<>> => view.nq = 0
        /\ view.input # <<>> =>
              view.nq = 3 + (IF \E i \in 1..Len(view.input) :
                                   CommentsOf(view.input[i].id) # {}
                             THEN 1 ELSE 0)
        /\ view.nq <= 4

\* more than a page of posts, several comments, four queries
C6_Witness ==
    /\ IsRender
    /\ Len(view.input) > POSTS_PER_PAGE
    /\ \E n \in 1..Len(view.out) : Len(view.out[n].comments) > 1
    /\ view.nq = 4

\* C7 as claimed: the author list and the detail view return every input
\* row with a live author, however many.
C7_Original ==
    (IsRender /\ view.kind \in {"user", "post"}) =>
        Ids(view.out) = Ids(LiveRows(view.input))

\* C7 amended: the page-size stop applies in every view; the author list,
\* the cursor list and the detail view return the first POSTS_PER_PAGE input
\* rows with a live author.
C7_EveryViewIsCapped ==
    (IsRender /\ view.kind \in {"user", "posts", "post"}) =>
        /\ Ids(view.out) = Ids(FirstPage(LiveRows(view.input)))
        /\ Len(view.out) <= POSTS_PER_PAGE

\* the list of an author with more than a page of posts, cut to a page
C7_Witness ==
    /\ view.kind = "user"
    /\ Len(LiveRows(view.input)) > POSTS_PER_PAGE
    /\ Len(view.out) = POSTS_PER_PAGE

\* C10: the rows handed to make_posts are in created_at descending order
\* with ties in descending id order.
C10_TotalOrder ==
    (IsRender /\ view.kind \in {"index", "user", "posts"}) =>
        \A i \in 1..Len(view.input) : \A j \in 1..Len(view.input) :
            i < j =>
                \/ view.input[i].created_at > view.input[j].created_at
                \/ /\ view.input[i].created_at = view.input[j].created_at
                   /\ view.input[i].id > view.input[j].id

LoginRan == view.kind = "login" /\ view.status \in {"ok", "fail"}

HashMatches(row, password) ==
    row.passhash = calculate_passhash(row.account_name, password)

\* C2 as claimed: login succeeds iff some row of that account name stores
\* the passhash of the supplied password.
C2_Original ==
    LoginRan =>
        (view.status = "ok" <=>
            \E i \in 1..Len(users) : /\ users[i].account_name = view.name
                                     /\ HashMatches(users[i], view.pw))

\* C2 amended: login succeeds iff a row of that account name with del_flg
\* unset stores the passhash of the supplied password, and then the session
\* is that row's; a successful registration stores the passhash of its
\* password.
C2_LoginIffActiveRowMatches ==
    /\ LoginRan =>
          (view.status = "ok" <=>
              \E i \in 1..Len(users) : /\ users[i].account_name = view.name
                                       /\ users[i].del_flg = 0
                                       /\ HashMatches(users[i], view.pw))
    /\ (LoginRan /\ view.status = "ok") =>
          /\ session["c1"] \in 1..Len(users)
          /\ users[session["c1"]].account_name = view.name
          /\ users[session["c1"]].del_flg = 0
    /\ (view.kind = "register" /\ view.status = "ok") =>
          /\ session["c1"] = Len(users)
          /\ users[Len(users)].account_name = view.name
          /\ HashMatches(users[Len(users)], view.pw)

\* a banned account's own password is refused
C2_Witness ==
    /\ LoginRan
    /\ view.status = "fail"
    /\ \E i \in 1..Len(users) : /\ users[i].account_name = view.name
                                /\ users[i].del_flg = 1
                                /\ HashMatches(users[i], view.pw)

\* what the registration form is meant to accept: the whole string in the class
WellFormed(class, n, s) ==
    /\ Len(s) >= n
    /\ \A i \in 1..Len(s) : s[i] \in class

\* C9: without a session, a registration whose account name or password is
\* not wholly of the allowed characters and long enough is rejected before
\* any store access.
C9_RejectsMalformed ==
    (/\ view.kind = "register"
     /\ view.status # "redirect"
     /\ ~(/\ WellFormed(NameChars, MinNameLen, view.name)
          /\ WellFormed(PasswordChars, MinPasswordLen, view.pw)))
        => (view.status = "invalid" /\ view.sql = 0)

\* C5: no two rows of the users table have the same account name.
C5_UniqueAccountNames ==
    \A i \in 1..Len(users) : \A j \in 1..Len(users) :
        i # j => users[i].account_name # users[j].account_name

\* C8: no empty hash is ever stored, and no login is granted on one.
C8_NoEmptyHash ==
    /\ \A i \in 1..Len(users) : users[i].passhash # EmptyStr
    /\ (LoginRan /\ view.status = "ok") =>
          \A i \in 1..Len(users) :
              i = session["c1"] => users[i].passhash # EmptyStr

====
